---- MODULE Spec2Model ----
(***************************************************************************)
(* Model of the RTD N Line arrivals proxy (src/server.js, whose second     *)
(* half is the same program as src/unnamed/part_000 with a larger stop     *)
(* directory).  One request to GET /api/rtd/arrivals or                    *)
(* GET /api/rtd/arrivals/:stopId is followed through its two suspension    *)
(* points (fetch, arrayBuffer) and the synchronous remainder of the        *)
(* handler (decode, filter, project, sort, truncate, respond).             *)
(*                                                                         *)
(* Four specifications share the variables, each holding at rest the ones  *)
(* it does not follow:                                                     *)
(*  - Spec: one request to either arrivals route;                          *)
(*  - SpecPair: two requests to the arrivals routes, interleaved at their  *)
(*    suspension points;                                                   *)
(*  - SpecReg (LiveReg with fairness): two register requests of the        *)
(*    planner and pantry routes, interleaved at their INSERTs;             *)
(*  - SpecTasks: the GET, POST and DELETE routes of the planner tasks, one *)
(*    request at a time, statement by statement.                           *)
(*                                                                         *)
(* Conventions.                                                            *)
(*  - A JavaScript string the code inspects (a stop id) is a sequence of   *)
(*    one-character strings; a string the code only copies (a display      *)
(*    name) is a sequence holding the whole text as one unit.              *)
(*  - A possibly-undefined JavaScript number is [def, v]; Undefined has    *)
(*    def = FALSE.                                                         *)
(*  - A protobuf int64 is decoded by protobufjs into a Long, the pair of   *)
(*    signed 32-bit halves [high, low]; its value is high * 2^32 + (low    *)
(*    read as unsigned).                                                   *)
(*  - Date.now() is NowSec0 * 1000 + clock: the clock variable holds the   *)
(*    milliseconds elapsed since the instant NowSec0 (epoch seconds).      *)
(*  - Records that the handlers push carry two auxiliary fields that the   *)
(*    code does not have, src (position <<entity, update>> of the          *)
(*    stop-time-update in the feed) and readAt (the clock value the        *)
(*    record's Date.now() call returned); only properties read them.       *)
(***************************************************************************)
EXTENDS Integers, Sequences, FiniteSets, TLC

VARIABLES
    upstream,   \* what the feed host answers to a fetch of RTD_TRIP_UPDATES
    clock,      \* milliseconds elapsed since NowSec0
    req,        \* the request in flight: handler position, locals, response
    peer,       \* a second request to GET /api/rtd/arrivals/:stopId in flight
    pool,       \* whether the pg pool exists (DATABASE_URL is set)
    users,      \* the rows of planner_users and of pantry_users
    reg,        \* the register requests in flight
    tasks,      \* the committed rows of planner_tasks
    call        \* the request to the planner tasks routes in flight

dbVars == <<pool, users, reg, tasks, call>>
vars == <<upstream, clock, req, peer, pool, users, reg, tasks, call>>

----------------------------------------------------------------------------
(* Bounds of the model *)

NowSec0 == 1700000000      \* epoch second at which the behaviour starts
TickMs == 1                \* one step of the Date.now() clock
MaxTicks == 2              \* clock steps followed in one behaviour
MaxEntities == 2           \* entities of an enumerated feed
MaxTasks == 2              \* tasks of a posted array
MaxUpdates == 1            \* stop-time-updates of an enumerated trip-update
LongLen == 11              \* stop-time-updates of a long trip-update

(* Program constants *)

WindowMin == 0 - 2         \* minutesUntil >= -2
WindowMax == 120           \* minutesUntil <= 120
MaxAttempts == 10          \* while (attempts < 10), if (attempts === 10)
TokenLen == 6              \* for (let i = 0; i < 6; i++)
ArrivingMax == 1           \* minutesUntil <= 1 ? 'Arriving'
DueMax == 5                \* minutesUntil <= 5 ? 'Due'
SliceEnd == 10             \* arrivals.slice(0, 10)

----------------------------------------------------------------------------
(* JavaScript values *)

Undefined == [def |-> FALSE, v |-> 0]
Num(n) == [def |-> TRUE, v |-> n]

\* ToBoolean of a possibly-undefined number: undefined and 0 are falsy
\* (variant: every value, undefined included, is truthy)
Truthy_Always(x) == TRUE
Truthy(x) == x.def /\ x.v # 0

\* a || b
Or(a, b) == IF Truthy(a) THEN a ELSE b

\* F(e), with e evaluated once
Eval(F(_), e) == CHOOSE r \in {F(x) : x \in {e}} : TRUE

Long(h, l) == [high |-> h, low |-> l]

\* String.prototype.toLowerCase on one code unit
UpperCase == <<"A","B","C","D","E","F","G","H","I","J","K","L","M",
               "N","O","P","Q","R","S","T","U","V","W","X","Y","Z">>
LowerCase == <<"a","b","c","d","e","f","g","h","i","j","k","l","m",
               "n","o","p","q","r","s","t","u","v","w","x","y","z">>
LowerOf ==
    [c \in {UpperCase[k] : k \in 1..26} |->
       LowerCase[CHOOSE k \in 1..26 : UpperCase[k] = c]]

LowerChar(c) == IF c \in DOMAIN LowerOf THEN LowerOf[c] ELSE c

toLowerCase(s) == [k \in 1..Len(s) |-> LowerChar(s[k])]

\* String.prototype.toUpperCase
UpperOf ==
    [c \in {LowerCase[k] : k \in 1..26} |->
       UpperCase[CHOOSE k \in 1..26 : LowerCase[k] = c]]

UpperChar(c) == IF c \in DOMAIN UpperOf THEN UpperOf[c] ELSE c

toUpperCase(s) == [k \in 1..Len(s) |-> UpperChar(s[k])]

----------------------------------------------------------------------------
(* The stop directory *)

K_ustn == <<"u","s","t","n">>
K_union == <<"u","n","i","o","n">>
K_unionstation == <<"u","n","i","o","n","s","t","a","t","i","o","n">>
K_48th == <<"4","8","t","h">>
K_48thbrighton == <<"4","8","t","h","b","r","i","g","h","t","o","n">>
K_72nd == <<"7","2","n","d">>
K_72ndcommercecity == <<"7","2","n","d","c","o","m","m","e","r","c","e","c","i","t","y">>
K_88th == <<"8","8","t","h">>
K_88ththornton == <<"8","8","t","h","t","h","o","r","n","t","o","n">>
K_104th == <<"1","0","4","t","h">>
K_104ththornton == <<"1","0","4","t","h","t","h","o","r","n","t","o","n">>
K_112th == <<"1","1","2","t","h">>
K_112thnorthglenn == <<"1","1","2","t","h","n","o","r","t","h","g","l","e","n","n">>
K_124th == <<"1","2","4","t","h">>
K_124theastlake == <<"1","2","4","t","h","e","a","s","t","l","a","k","e">>

N_LINE_STOPS ==
    (K_ustn :> <<"Union Station">>) @@
    (K_union :> <<"Union Station">>) @@
    (K_unionstation :> <<"Union Station">>) @@
    (K_48th :> <<"48th & Brighton/National Western Center">>) @@
    (K_48thbrighton :> <<"48th & Brighton/National Western Center">>) @@
    (K_72nd :> <<"Commerce City/72nd">>) @@
    (K_72ndcommercecity :> <<"Commerce City/72nd">>) @@
    (K_88th :> <<"Original Thornton/88th">>) @@
    (K_88ththornton :> <<"Original Thornton/88th">>) @@
    (K_104th :> <<"Thornton Crossroads/104th">>) @@
    (K_104ththornton :> <<"Thornton Crossroads/104th">>) @@
    (K_112th :> <<"Northglenn/112th">>) @@
    (K_112thnorthglenn :> <<"Northglenn/112th">>) @@
    (K_124th :> <<"Eastlake/124th">>) @@
    (K_124theastlake :> <<"Eastlake/124th">>)

\* N_LINE_STOPS is an object literal, so N_LINE_STOPS[key] also finds what
\* Object.prototype holds.  Every key the handlers use is lower-cased first;
\* the all-lower-case names on Object.prototype are "constructor" (the
\* function Object, whose name is 'Object') and "__proto__" (Object.prototype
\* itself, an object without a name).
K_constructor == <<"c","o","n","s","t","r","u","c","t","o","r">>
K___proto__ == <<"_","_","p","r","o","t","o","_","_">>

\* N_LINE_STOPS[key]: found is the truthiness of the value, name is value.name
Lookup(key) ==
    IF key \in DOMAIN N_LINE_STOPS
    THEN [found |-> TRUE, hasName |-> TRUE, name |-> N_LINE_STOPS[key]]
    ELSE IF key = K_constructor
    THEN [found |-> TRUE, hasName |-> TRUE, name |-> <<"Object">>]
    ELSE IF key = K___proto__
    THEN [found |-> TRUE, hasName |-> FALSE, name |-> <<>>]
    ELSE [found |-> FALSE, hasName |-> FALSE, name |-> <<>>]

\* N_LINE_STOPS[stopId.toLowerCase()]?.name || stopId
StopName(stopId) ==
    LET e == Lookup(toLowerCase(stopId))
    IN  IF e.found /\ e.hasName /\ e.name # <<>> THEN e.name ELSE stopId

----------------------------------------------------------------------------
(* The decoded feed *)

\* update.arrival?.time?.low: a missing StopTimeEvent gives undefined; a
\* StopTimeEvent without a time field carries the decoder's default, Long 0.
LowOf(ev) == IF ev.has THEN Num(ev.time.low) ELSE Undefined

\* update.arrival?.time?.low || update.departure?.time?.low
ArrivalTime(update) == Or(LowOf(update.arrival), LowOf(update.departure))

\* entity.tripUpdate && entity.tripUpdate.trip.routeId === 'N'
\* (variant: the route id compared without regard to case)
RouteAccepted_AnyCase(entity) ==
    entity.hasTripUpdate /\ entity.trip.routeId \in {"N", "n"}
RouteAccepted(entity) ==
    entity.hasTripUpdate /\ entity.trip.routeId = "N"

\* update.stopId.toLowerCase() === stopId.toLowerCase()
\* (variant: the stop ids compared as they are)
StopMatches_Exact(feedStopId, stopId) == feedStopId = stopId
StopMatches(feedStopId, stopId) == toLowerCase(feedStopId) = toLowerCase(stopId)

\* Math.round((arrivalTime - Date.now() / 1000) / 60), Date.now() being
\* NowSec0 * 1000 + now.  Math.round(x) is floor(x + 1/2).  The quotient is
\* taken minute by minute so that no intermediate value leaves 32 bits.
MinutesUntil(arrivalTime, now) ==
    ((arrivalTime \div 60) - (NowSec0 \div 60))
      + ((1000 * ((arrivalTime % 60) - (NowSec0 % 60)) - now + 30000) \div 60000)

\* minutesUntil >= -2 && minutesUntil <= 120
\* (variant: the two bounds excluded)
InWindow_Strict(minutesUntil) == minutesUntil > WindowMin /\ minutesUntil < WindowMax
InWindow(minutesUntil) == minutesUntil >= WindowMin /\ minutesUntil <= WindowMax

\* minutesUntil <= 1 ? 'Arriving' : minutesUntil <= 5 ? 'Due' : 'On Time'
\* (variant: < in place of <=)
Status_Shifted(minutesUntil) ==
    IF minutesUntil < ArrivingMax THEN "Arriving"
    ELSE IF minutesUntil < DueMax THEN "Due" ELSE "On Time"
Status(minutesUntil) ==
    IF minutesUntil <= ArrivingMax THEN "Arriving"
    ELSE IF minutesUntil <= DueMax THEN "Due" ELSE "On Time"

\* trip.trip.directionId === 0 ? 'Southbound' : 'Northbound'
Direction(directionId) == IF directionId = 0 THEN "Southbound" ELSE "Northbound"

\* trip.vehicle?.id || 'Unknown'
VehicleId(vehicle) == IF vehicle.has /\ vehicle.id # "" THEN vehicle.id ELSE "Unknown"

\* new Date(arrivalTime * 1000).toLocaleTimeString(...), the process running
\* in UTC: the hour and the minute of the day
FormatTime(arrivalTime) ==
    [hour |-> (arrivalTime \div 3600) % 24, minute |-> (arrivalTime \div 60) % 60]

\* The value of the (n+1)-th Date.now() call of the synchronous part of a
\* handler that starts at clock value base, the clock stepping once after p calls
ReadClock(base, p, n) == IF n >= p THEN base + TickMs ELSE base

\* Positions <<entity, update>> of the stop-time-updates of accepted trips,
\* in the order the two nested forEach loops visit them
RECURSIVE Visited(_, _)
Visited(feed, i) ==
    IF i > Len(feed) THEN <<>>
    ELSE (IF RouteAccepted(feed[i])
          THEN [j \in 1..Len(feed[i].stopTimeUpdate) |-> <<i, j>>]
          ELSE <<>>) \o Visited(feed, i + 1)

----------------------------------------------------------------------------
(* The sort and the truncation *)

\* (a, b) => a.arrivalTime - b.arrivalTime, by its sign
Compare(a, b) ==
    IF a.arrivalTime > b.arrivalTime THEN 1
    ELSE IF a.arrivalTime < b.arrivalTime THEN 0 - 1 ELSE 0

\* Array.prototype.sort with Compare, a stable ascending sort: s[i] moves
\* behind the elements that compare below it and the earlier elements that
\* compare equal to it
SortedPos_Unstable(s, i) ==
    1 + Cardinality({j \in 1..Len(s) :
                       \/ Compare(s[j], s[i]) < 0
                       \/ Compare(s[j], s[i]) = 0 /\ j > i})
SortedPos(s, i) ==
    1 + Cardinality({j \in 1..Len(s) :
                       \/ Compare(s[j], s[i]) < 0
                       \/ Compare(s[j], s[i]) = 0 /\ j < i})

\* (variant: the array left in feed order)
SortArrivals_None(s) == s
SortArrivals(s) ==
    LET Place(pos) == [r \in 1..Len(s) |-> s[CHOOSE i \in 1..Len(s) : pos[i] = r]]
    IN  Eval(Place, [i \in 1..Len(s) |-> SortedPos(s, i)])

\* arrivals.slice(0, 10)
\* (variant: the whole array)
Slice_All(s) == s
Slice(s) == SubSeq(s, 1, IF Len(s) < SliceEnd THEN Len(s) ELSE SliceEnd)

----------------------------------------------------------------------------
(* The synchronous part of the handlers *)

\* The object pushed by GET /api/rtd/arrivals/:stopId
StopRecord(entity, t, m, src, now) ==
    [ tripId               |-> entity.trip.tripId,
      directionId          |-> entity.trip.directionId,
      direction            |-> Direction(entity.trip.directionId),
      arrivalTime          |-> t.v,
      arrivalTimeFormatted |-> FormatTime(t.v),
      minutesUntil         |-> m,
      status               |-> Status(m),
      vehicleId            |-> VehicleId(entity.vehicle),
      src                  |-> src,
      readAt               |-> now ]

\* The object pushed by GET /api/rtd/arrivals
AllRecord(entity, stopId, t, src, now) ==
    [ stopId               |-> stopId,
      stopName             |-> Lookup(stopId).name,
      tripId               |-> entity.trip.tripId,
      directionId          |-> entity.trip.directionId,
      arrivalTime          |-> t.v,
      arrivalTimeFormatted |-> FormatTime(t.v),
      minutesUntil         |-> MinutesUntil(t.v, now),
      vehicleId            |-> VehicleId(entity.vehicle),
      src                  |-> src,
      readAt               |-> now ]

\* The k-th visited update of the feed and the entity that holds it
EntityAt(feed, items, k) == feed[items[k][1]]
UpdateAt(feed, items, k) == feed[items[k][1]].stopTimeUpdate[items[k][2]]

\* The records of the candidates marked keep, in order
Kept(cands) ==
    LET Recs(sel) == [i \in 1..Len(sel) |-> sel[i].rec]
    IN  Eval(Recs, SelectSeq(cands, LAMBDA c : c.keep))

\* The number of Date.now() calls made before the k-th visited update is
\* reached, reads[h] telling whether the h-th one makes the call
ReadsBefore(reads, k) == Cardinality({h \in 1..(k - 1) : reads[h]})

\* The two nested forEach loops of GET /api/rtd/arrivals/:stopId over the
\* visited updates.  An update reaches the Date.now() call when its stop id
\* matches and its time is truthy, and is pushed when its minutesUntil is
\* in the window.  base is the clock when the loops start and p the number
\* of calls the clock lets pass before it steps.
ScanStop(feed, items, stopId, base, p) ==
    LET Reads(k) ==
          /\ StopMatches(UpdateAt(feed, items, k).stopId, stopId)
          /\ Truthy(ArrivalTime(UpdateAt(feed, items, k)))
        Loop(reads) ==
          LET cands ==
                [k \in 1..Len(items) |->
                   LET t   == ArrivalTime(UpdateAt(feed, items, k))
                       now == ReadClock(base, p, ReadsBefore(reads, k))
                       m   == MinutesUntil(t.v, now)
                   IN  [keep |-> reads[k] /\ InWindow(m),
                        rec  |-> StopRecord(EntityAt(feed, items, k), t, m,
                                            items[k], now)]]
          IN  [arrivals |-> Kept(cands),
               reads    |-> ReadsBefore(reads, Len(items) + 1)]
    IN  Eval(Loop, [k \in 1..Len(items) |-> Reads(k)])

\* The two nested forEach loops of GET /api/rtd/arrivals: an update is pushed,
\* and its Date.now() call made, when its lower-cased stop id finds a truthy
\* value in N_LINE_STOPS and its time is truthy
ScanAll(feed, items, base, p) ==
    LET Reads(k) ==
          /\ Lookup(toLowerCase(UpdateAt(feed, items, k).stopId)).found
          /\ Truthy(ArrivalTime(UpdateAt(feed, items, k)))
        Loop(reads) ==
          LET cands ==
                [k \in 1..Len(items) |->
                   LET t   == ArrivalTime(UpdateAt(feed, items, k))
                       now == ReadClock(base, p, ReadsBefore(reads, k))
                   IN  [keep |-> reads[k],
                        rec  |-> AllRecord(EntityAt(feed, items, k),
                                           toLowerCase(UpdateAt(feed, items, k).stopId),
                                           t, items[k], now)]]
          IN  [arrivals |-> Kept(cands),
               reads    |-> ReadsBefore(reads, Len(items) + 1)]
    IN  Eval(Loop, [k \in 1..Len(items) |-> Reads(k)])

----------------------------------------------------------------------------
(* The feeds the host may publish *)

NoEvent == [has |-> FALSE, time |-> Long(0, 0)]
At(t) == [has |-> TRUE, time |-> t]
Sec(offset) == Long(0, NowSec0 + offset)

S_ustn == K_ustn
S_USTN == <<"U","S","T","N">>
S_ustnSp == <<"u","s","t","n"," ">>
S_SpUstn == <<" ","u","s","t","n">>
S_99999 == <<"9","9","9","9","9">>
S_Constructor == <<"C","o","n","s","t","r","u","c","t","o","r">>

FeedStopIds == {S_ustn, S_USTN, S_ustnSp, S_99999, K_constructor}
ReqStopIds == {S_ustn, S_USTN, S_SpUstn, K_union, S_99999, S_Constructor}

\* Arrival times: around the window's two ends and the status buckets, the
\* value 0, a value of 2^31 + 5 (low half negative) and a value of
\* 2^32 + NowSec0 + 90 (high half 1)
ArrivalEvents ==
    {NoEvent} \cup
    {At(Sec(o)) : o \in {0 - 150, 90, 330, 7230}} \cup
    {At(Long(0, 0)), At(Long(0, 0 - 2147483643)), At(Long(1, NowSec0 + 90))}
DepartureEvents ==
    {NoEvent} \cup {At(Sec(o)) : o \in {90, 330}} \cup {At(Long(0, 0))}

Updates ==
    [stopId : FeedStopIds, arrival : ArrivalEvents, departure : DepartureEvents]

RouteIds == {"N", "n", "117N"}

\* The entity at position i of a feed: a trip-update of the given route with
\* the given stop-time-updates; trip id, direction and vehicle follow from i
TripEntity(i, routeId, updates) ==
    [ hasTripUpdate  |-> TRUE,
      trip           |-> [tripId |-> i, routeId |-> routeId, directionId |-> i % 2],
      stopTimeUpdate |-> updates,
      vehicle        |-> [has |-> i % 2 = 1, id |-> IF i % 2 = 1 THEN "V1" ELSE ""] ]

\* An entity without a trip-update (a vehicle position or an alert)
OtherEntity(i) ==
    [ hasTripUpdate  |-> FALSE,
      trip           |-> [tripId |-> i, routeId |-> "", directionId |-> 0],
      stopTimeUpdate |-> <<>>,
      vehicle        |-> [has |-> FALSE, id |-> ""] ]

SeqsUpTo(S, n) == UNION {[1..k -> S] : k \in 0..n}

\* One entity holding one stop-time-update: every route, stop id and pair of
\* events
SingleFeeds ==
    {<<OtherEntity(1)>>} \cup
    {<<TripEntity(1, r, <<u>>)>> : r \in RouteIds, u \in Updates}

\* Up to MaxEntities entities of route N, each with up to MaxUpdates updates
\* at stop ustn
At_ustn(o) == [stopId |-> S_ustn, arrival |-> At(Sec(o)), departure |-> NoEvent]
PairUpdates == {At_ustn(330), At_ustn(90)}
PairKinds == {<<"other", <<>> >>} \cup {<<"trip", us>> : us \in SeqsUpTo(PairUpdates, MaxUpdates)}
PairFeeds ==
    { [i \in 1..Len(ks) |->
         IF ks[i][1] = "other" THEN OtherEntity(i) ELSE TripEntity(i, "N", ks[i][2])]
      : ks \in SeqsUpTo(PairKinds, MaxEntities) }

\* One trip of route N calling at ustn once for every minute offset from 3
\* minutes ago to 121 minutes ahead
SweepFeeds == {<<TripEntity(1, "N", <<At_ustn(60 * k)>>)>> : k \in (0 - 3)..121}

\* One trip of route N with LongLen updates at ustn whose times are scrambled
\* by a, b, c and spread by w minutes
LongFeeds ==
    { <<TripEntity(1, "N",
          [j \in 1..LongLen |-> At_ustn(90 + 60 * w * ((a * j + b) % c))])>>
      : a \in {1, 3, 7}, b \in {0, 1}, c \in {5, 12}, w \in {1, 20} }

\* Two trips of any two routes, each calling at ustn once
MixedFeeds ==
    { <<TripEntity(1, r1, <<At_ustn(330)>>), TripEntity(2, r2, <<At_ustn(90)>>)>>
      : r1 \in RouteIds, r2 \in RouteIds }

Feeds == SingleFeeds \cup PairFeeds \cup MixedFeeds \cup SweepFeeds \cup LongFeeds

SampleFeed == <<TripEntity(1, "N", <<At_ustn(330), At_ustn(90)>>)>>

\* What the host answers: a feed with status 200, or no answer at all, or a
\* body that is no feed message, or an error status with either body
Upstreams ==
    {[reachable |-> TRUE, status |-> 200, wellFormed |-> TRUE, feed |-> f] : f \in Feeds}
    \cup {[reachable |-> FALSE, status |-> 0, wellFormed |-> FALSE, feed |-> <<>>]}
    \cup {[reachable |-> TRUE, status |-> st, wellFormed |-> FALSE, feed |-> <<>>]
            : st \in {200, 503}}
    \cup {[reachable |-> TRUE, status |-> 503, wellFormed |-> TRUE, feed |-> SampleFeed]}

----------------------------------------------------------------------------
(* The state machine *)

NoResponse == [reachable |-> FALSE, status |-> 0, wellFormed |-> FALSE, feed |-> <<>>]
NoRes == [status |-> 0]

\* A request slot before its request arrives
IdleRequest ==
    [pc |-> "idle", endpoint |-> "none", stopId |-> <<>>,
     response |-> NoResponse, arrivals |-> <<>>, res |-> NoRes]

\* The register requests followed, and one before it arrives
Regs == {"r1", "r2"}
IdleReg ==
    [pc |-> "idle", table |-> "none", token |-> <<>>, attempts |-> 0,
     inserts |-> 0, stored |-> <<>>, res |-> NoRes]

\* No successful sync of tasks precedes, and the tasks request slot before
\* its request arrives
NoPost == [ok |-> FALSE, token |-> <<>>, posted |-> <<>>]
IdleCall ==
    [pc |-> "idle", route |-> "none", token |-> <<>>, taskId |-> 0,
     posted |-> <<>>, i |-> 0, work |-> {}, client |-> "none",
     error |-> "", before |-> {}, prev |-> NoPost, res |-> NoRes]

\* The tables as initDatabase creates them, and nothing in flight
NoUsers == [planner |-> {}, pantry |-> {}]
DbAtRest ==
    /\ pool = FALSE
    /\ users = NoUsers
    /\ reg = [r \in Regs |-> IdleReg]
    /\ tasks = {}
    /\ call = IdleCall

Init ==
    /\ upstream \in Upstreams
    /\ clock = 0
    /\ req = [pc |-> "idle", endpoint |-> "none", stopId |-> <<>>,
              response |-> NoResponse, arrivals |-> <<>>, res |-> NoRes]
    /\ peer = IdleRequest
    /\ DbAtRest

\* The clock steps
Tick ==
    /\ req.pc # "done"
    /\ clock < MaxTicks * TickMs
    /\ clock' = clock + TickMs
    /\ UNCHANGED <<upstream, req, peer, dbVars>>

\* A request arrives; the handler runs up to `await fetch(RTD_TRIP_UPDATES)`
RequestAll ==
    /\ req.pc = "idle"
    /\ req' = [req EXCEPT !.pc = "fetch", !.endpoint = "all"]
    /\ UNCHANGED <<upstream, clock, peer, dbVars>>

RequestStop ==
    /\ req.pc = "idle"
    /\ \E stopId \in ReqStopIds :
         req' = [req EXCEPT !.pc = "fetch", !.endpoint = "stop", !.stopId = stopId]
    /\ UNCHANGED <<upstream, clock, peer, dbVars>>

\* fetch resolves with the host's answer, whatever its status; the handler
\* runs up to `await response.arrayBuffer()`
FetchResolve ==
    /\ req.pc = "fetch"
    /\ upstream.reachable
    /\ req' = [req EXCEPT !.pc = "arrayBuffer", !.response = upstream]
    /\ UNCHANGED <<upstream, clock, peer, dbVars>>

\* fetch rejects: the catch block answers 500
FetchReject ==
    /\ req.pc = "fetch"
    /\ ~upstream.reachable
    /\ req' = [req EXCEPT !.pc = "done",
                          !.res = [status |-> 500, error |-> "fetch failed"]]
    /\ UNCHANGED <<upstream, clock, peer, dbVars>>

\* (variant: the catch block answers with an empty success)
DecodeFail_Success ==
    /\ req.pc = "arrayBuffer"
    /\ ~req.response.wellFormed
    /\ req' = [req EXCEPT !.pc = "done",
                          !.res = [status |-> 200, timestamp |-> clock,
                                   arrivals |-> <<>>]]
    /\ UNCHANGED <<upstream, clock, peer, dbVars>>

\* FeedMessage.decode throws: the catch block answers 500
DecodeFail ==
    /\ req.pc = "arrayBuffer"
    /\ ~req.response.wellFormed
    /\ req' = [req EXCEPT !.pc = "done",
                          !.res = [status |-> 500, error |-> "decode failed"]]
    /\ UNCHANGED <<upstream, clock, peer, dbVars>>

\* The clock steps at most once while the loops run, and only if the
\* behaviour has steps left: p is the number of Date.now() calls before it
StepPoints(n) == IF clock < MaxTicks * TickMs THEN 0..(n + 1) ELSE {n + 1}

\* GET /api/rtd/arrivals from the decode to res.json
RespondAll ==
    /\ req.pc = "arrayBuffer"
    /\ req.response.wellFormed
    /\ req.endpoint = "all"
    /\ \E items \in {Visited(req.response.feed, 1)} :
       \E p \in StepPoints(Len(items)) :
       \E scan \in {ScanAll(req.response.feed, items, clock, p)} :
       \E nLineArrivals \in {SortArrivals(scan.arrivals)} :
       \E timestamp \in {ReadClock(clock, p, scan.reads)} :
         /\ req' = [req EXCEPT
                      !.pc = "done",
                      !.arrivals = nLineArrivals,
                      !.res = [status    |-> 200,
                               timestamp |-> timestamp,
                               arrivals  |-> nLineArrivals]]
         /\ clock' = timestamp
    /\ UNCHANGED <<upstream, peer, dbVars>>

\* GET /api/rtd/arrivals/:stopId from the decode to res.json
RespondStop ==
    /\ req.pc = "arrayBuffer"
    /\ req.response.wellFormed
    /\ req.endpoint = "stop"
    /\ \E items \in {Visited(req.response.feed, 1)} :
       \E p \in StepPoints(Len(items)) :
       \E scan \in {ScanStop(req.response.feed, items, req.stopId, clock, p)} :
       \E arrivals \in {SortArrivals(scan.arrivals)} :
       \E timestamp \in {ReadClock(clock, p, scan.reads)} :
         /\ req' = [req EXCEPT
                      !.pc = "done",
                      !.arrivals = arrivals,
                      !.res = [status    |-> 200,
                               stopId    |-> req.stopId,
                               stopName  |-> StopName(req.stopId),
                               timestamp |-> timestamp,
                               arrivals  |-> Slice(arrivals)]]
         /\ clock' = timestamp
    /\ UNCHANGED <<upstream, peer, dbVars>>

Next ==
    \/ Tick
    \/ RequestAll
    \/ RequestStop
    \/ FetchResolve
    \/ FetchReject
    \/ DecodeFail
    \/ RespondAll
    \/ RespondStop

Spec == Init /\ [][Next]_vars

----------------------------------------------------------------------------
(* Two requests in flight.  Each call of a handler has its own locals; the  *)
(* two share the feed host and the clock, and the synchronous part of one   *)
(* handler runs to its end before that of the other starts.                 *)

\* The answers of the feed host in the behaviours that follow two requests
PairUpstreams ==
    {u \in Upstreams :
       ~u.reachable \/ ~u.wellFormed \/ u.feed \in PairFeeds \cup {SampleFeed}}

InitPair ==
    /\ upstream \in PairUpstreams
    /\ clock = 0
    /\ req = IdleRequest
    /\ peer = IdleRequest
    /\ DbAtRest

\* The clock steps while a request is unanswered
TickPair ==
    /\ req.pc # "done" \/ peer.pc # "done"
    /\ clock < MaxTicks * TickMs
    /\ clock' = clock + TickMs
    /\ UNCHANGED <<upstream, req, peer, dbVars>>

\* The second request arrives; its handler runs up to `await fetch`
PeerRequestStop ==
    /\ peer.pc = "idle"
    /\ \E stopId \in ReqStopIds :
         peer' = [peer EXCEPT !.pc = "fetch", !.endpoint = "stop", !.stopId = stopId]
    /\ UNCHANGED <<upstream, clock, req, dbVars>>

PeerFetchResolve ==
    /\ peer.pc = "fetch"
    /\ upstream.reachable
    /\ peer' = [peer EXCEPT !.pc = "arrayBuffer", !.response = upstream]
    /\ UNCHANGED <<upstream, clock, req, dbVars>>

PeerFetchReject ==
    /\ peer.pc = "fetch"
    /\ ~upstream.reachable
    /\ peer' = [peer EXCEPT !.pc = "done",
                            !.res = [status |-> 500, error |-> "fetch failed"]]
    /\ UNCHANGED <<upstream, clock, req, dbVars>>

PeerDecodeFail ==
    /\ peer.pc = "arrayBuffer"
    /\ ~peer.response.wellFormed
    /\ peer' = [peer EXCEPT !.pc = "done",
                            !.res = [status |-> 500, error |-> "decode failed"]]
    /\ UNCHANGED <<upstream, clock, req, dbVars>>

PeerRespondStop ==
    /\ peer.pc = "arrayBuffer"
    /\ peer.response.wellFormed
    /\ \E items \in {Visited(peer.response.feed, 1)} :
       \E p \in StepPoints(Len(items)) :
       \E scan \in {ScanStop(peer.response.feed, items, peer.stopId, clock, p)} :
       \E arrivals \in {SortArrivals(scan.arrivals)} :
       \E timestamp \in {ReadClock(clock, p, scan.reads)} :
         /\ peer' = [peer EXCEPT
                       !.pc = "done",
                       !.arrivals = arrivals,
                       !.res = [status    |-> 200,
                                stopId    |-> peer.stopId,
                                stopName  |-> StopName(peer.stopId),
                                timestamp |-> timestamp,
                                arrivals  |-> Slice(arrivals)]]
         /\ clock' = timestamp
    /\ UNCHANGED <<upstream, req, dbVars>>

NextPair ==
    \/ TickPair
    \/ RequestAll
    \/ RequestStop
    \/ FetchResolve
    \/ FetchReject
    \/ DecodeFail
    \/ RespondAll
    \/ RespondStop
    \/ PeerRequestStop
    \/ PeerFetchResolve
    \/ PeerFetchReject
    \/ PeerDecodeFail
    \/ PeerRespondStop

SpecPair == InitPair /\ [][NextPair]_vars

----------------------------------------------------------------------------
(* Registration: POST /api/planner/register and POST /api/pantry/register   *)
(* A request is followed from its arrival through every                     *)
(* `await pool.query('INSERT ...')` to its response.  The auxiliary fields  *)
(* inserts (INSERT statements sent) and stored (the token its INSERT        *)
(* stored) are read by properties only.                                     *)

\* The alphabet of the tokens
chars == <<"A","B","C","D","E","F","G","H","J","K","L","M","N","P","Q","R",
           "S","T","U","V","W","X","Y","Z","2","3","4","5","6","7","8","9">>

\* The outcomes of the six Math.floor(Math.random() * chars.length) of one
\* call that the behaviours follow, as 1-based indices into chars
Draws == {[i \in 1..TokenLen |-> IF i = TokenLen THEN last ELSE 1] : last \in {1, 2}}

generatePlanToken(draw) ==
    <<"P","L","A","N","-">> \o [i \in 1..TokenLen |-> chars[draw[i]]]
generateKitchToken(draw) ==
    <<"K","I","T","C","H","-">> \o [i \in 1..TokenLen |-> chars[draw[i]]]

PlanTokens == {generatePlanToken(draw) : draw \in Draws}
KitchTokens == {generateKitchToken(draw) : draw \in Draws}

generateToken(table, draw) ==
    IF table = "planner" THEN generatePlanToken(draw) ELSE generateKitchToken(draw)

\* token VARCHAR(20) UNIQUE NOT NULL: the INSERT fails with code 23505
\* (variant: the column is not unique)
UniqueViolation_Never(rows, token) == FALSE
UniqueViolation(rows, token) == token \in rows

\* while (attempts < 10)
\* (variant: one more turn)
LoopContinues_Eleven(attempts) == attempts < MaxAttempts + 1
LoopContinues(attempts) == attempts < MaxAttempts

\* The statements after the loop
AfterLoop(attempts, token) ==
    IF attempts = MaxAttempts
    THEN [status |-> 500, success |-> FALSE,
          error |-> "Could not generate unique token"]
    ELSE [status |-> 200, success |-> TRUE, token |-> token]

\* The handler from its start to the first INSERT.  The loop is entered
\* with attempts = 0
Register(r, table) ==
    /\ reg[r].pc = "idle"
    /\ IF ~pool
       THEN reg' = [reg EXCEPT ![r] =
                      [reg[r] EXCEPT
                         !.pc = "done", !.table = table,
                         !.res = [status |-> 503, success |-> FALSE,
                                  error |-> "Database not configured"]]]
       ELSE \E draw \in Draws :
              reg' = [reg EXCEPT ![r] =
                        [reg[r] EXCEPT
                           !.pc = "insert", !.table = table,
                           !.token = generateToken(table, draw),
                           !.inserts = 1]]
    /\ UNCHANGED <<upstream, clock, req, peer, pool, users, tasks, call>>

PlannerRegister(r) == Register(r, "planner")
PantryRegister(r) == Register(r, "pantry")

\* The INSERT stores the row: break, then the statements after the loop
InsertStored(r) ==
    /\ reg[r].pc = "insert"
    /\ ~UniqueViolation(users[reg[r].table], reg[r].token)
    /\ users' = [users EXCEPT ![reg[r].table] = @ \cup {reg[r].token}]
    /\ reg' = [reg EXCEPT ![r] =
                 [reg[r] EXCEPT
                    !.pc = "done", !.stored = reg[r].token,
                    !.res = AfterLoop(reg[r].attempts, reg[r].token)]]
    /\ UNCHANGED <<upstream, clock, req, peer, pool, tasks, call>>

\* The INSERT fails with code 23505: attempts++, continue; the loop either
\* draws the next token and sends the next INSERT or ends
InsertCollides(r) ==
    /\ reg[r].pc = "insert"
    /\ UniqueViolation(users[reg[r].table], reg[r].token)
    /\ \E attempts \in {reg[r].attempts + 1} :
         IF LoopContinues(attempts)
         THEN \E draw \in Draws :
                reg' = [reg EXCEPT ![r] =
                          [reg[r] EXCEPT
                             !.attempts = attempts,
                             !.token = generateToken(reg[r].table, draw),
                             !.inserts = @ + 1]]
         ELSE reg' = [reg EXCEPT ![r] =
                        [reg[r] EXCEPT
                           !.pc = "done", !.attempts = attempts,
                           !.res = AfterLoop(attempts, reg[r].token)]]
    /\ UNCHANGED <<upstream, clock, req, peer, pool, users, tasks, call>>

\* The INSERT fails with another error: throw, and the catch block answers
InsertFails(r) ==
    /\ reg[r].pc = "insert"
    /\ reg' = [reg EXCEPT ![r] =
                 [reg[r] EXCEPT
                    !.pc = "done",
                    !.res = [status |-> 500, success |-> FALSE,
                             error |-> "Connection terminated"]]]
    /\ UNCHANGED <<upstream, clock, req, peer, pool, users, tasks, call>>

\* The users tables hold what earlier runs of the server stored
\* (CREATE TABLE IF NOT EXISTS)
InitReg ==
    /\ upstream = NoResponse
    /\ clock = 0
    /\ req = IdleRequest
    /\ peer = IdleRequest
    /\ pool \in BOOLEAN
    /\ users \in [planner : SUBSET PlanTokens, pantry : SUBSET KitchTokens]
    /\ reg = [r \in Regs |-> IdleReg]
    /\ tasks = {}
    /\ call = IdleCall

NextReg ==
    \E r \in Regs :
      \/ PlannerRegister(r)
      \/ PantryRegister(r)
      \/ InsertStored(r)
      \/ InsertCollides(r)
      \/ InsertFails(r)

SpecReg == InitReg /\ [][NextReg]_vars

\* Every INSERT sent is answered: the query settles
LiveReg ==
    SpecReg /\ \A r \in Regs :
                 WF_vars(InsertStored(r) \/ InsertCollides(r) \/ InsertFails(r))

----------------------------------------------------------------------------
(* The planner tasks routes: GET, POST and DELETE /api/planner/tasks.      *)
(* One request at a time is followed from its arrival through every await   *)
(* to its response.  A row of planner_tasks is [id, user_token, data].  The *)
(* auxiliary fields before (the committed rows when the request arrived)    *)
(* and prev (the request before a GET, if it was a sync answered with       *)
(* success) are read by properties only; i and work, locals of the sync,    *)
(* are gone once it has answered.                                           *)

\* The tokens of the URLs, in either letter case, and the posted tasks
TaskTokens == PlanTokens \cup {toLowerCase(t) : t \in PlanTokens}
TaskIds == {1, 2}
Titles == {"a", "b"}
\* The arrays posted: tasks of any ids, repeated ones included, which all
\* carry the title of their array, so that the tasks of one sync differ
\* from those of another with the same ids
TaskArrays ==
    {[k \in 1..Len(ids) |-> [id |-> ids[k], title |-> title]]
       : ids \in SeqsUpTo(TaskIds, MaxTasks), title \in Titles}
Bodies ==
    {[isArray |-> FALSE, tasks |-> <<>>]}
    \cup {[isArray |-> TRUE, tasks |-> ts] : ts \in TaskArrays}

ConnectionError == "Connection terminated"

\* The rows of a token, and those of the other tokens
RowsOf(rows, token) == {w \in rows : w.user_token = token}
RowsNotOf(rows, token) == {w \in rows : w.user_token # token}

\* INSERT INTO planner_tasks (id, user_token, data) VALUES ($1, $2, $3):
\* the error it fails with, "" if none.  id is the primary key of the
\* table; user_token references planner_users(token)
InsertError(work, registered, row) ==
    IF \E w \in work : w.id = row.id
    THEN "duplicate key value violates unique constraint"
    ELSE IF row.user_token \notin registered
    THEN "violates foreign key constraint"
    ELSE ""

\* What the table holds after ROLLBACK, given the committed rows and the
\* rows as the transaction left them
\* (variant: the statements of the transaction stay)
RolledBack_Kept(committed, work) == work
RolledBack(committed, work) == committed

\* SELECT ... ORDER BY id, then rows.map(row => row.data)
OrderById(rows) ==
    [k \in 1..Cardinality(rows) |->
       (CHOOSE w \in rows : Cardinality({x \in rows : x.id < w.id}) = k - 1).data]

\* The request before this one, if it was a sync answered with success
Prev ==
    IF call.route = "post" /\ call.pc = "done" /\ call.res.status = 200
    THEN [ok |-> TRUE, token |-> call.token, posted |-> call.posted]
    ELSE NoPost

NotConfigured == [status |-> 503, success |-> FALSE, error |-> "Database not configured"]

\* POST /api/planner/tasks/:token up to `await pool.connect()`
PostTasks ==
    /\ call.pc \in {"idle", "done"}
    /\ \E token \in TaskTokens : \E body \in Bodies :
       \E arrived \in {[IdleCall EXCEPT !.route = "post", !.token = token,
                                         !.before = tasks]} :
         call' = IF ~pool
                 THEN [arrived EXCEPT !.pc = "done", !.res = NotConfigured]
                 ELSE IF ~body.isArray
                 THEN [arrived EXCEPT
                         !.pc = "done",
                         !.res = [status |-> 400, error |-> "Tasks must be an array"]]
                 ELSE [arrived EXCEPT !.pc = "connect", !.posted = body.tasks]
    /\ UNCHANGED <<upstream, clock, req, peer, pool, users, reg, tasks>>

\* pool.connect() resolves; BEGIN is sent
Connected ==
    /\ call.pc = "connect"
    /\ call' = [call EXCEPT !.pc = "begin", !.client = "held"]
    /\ UNCHANGED <<upstream, clock, req, peer, pool, users, reg, tasks>>

\* pool.connect() rejects: the outer catch answers
ConnectFails ==
    /\ call.pc = "connect"
    /\ call' = [call EXCEPT !.pc = "done", !.error = ConnectionError,
                            !.res = [status |-> 500, error |-> ConnectionError]]
    /\ UNCHANGED <<upstream, clock, req, peer, pool, users, reg, tasks>>

\* BEGIN resolves; DELETE ... WHERE user_token = $1 is sent
Begun ==
    /\ call.pc = "begin"
    /\ call' = [call EXCEPT !.pc = "delete", !.work = tasks]
    /\ UNCHANGED <<upstream, clock, req, peer, pool, users, reg, tasks>>

\* DELETE resolves; the loop sends the first INSERT, or COMMIT is sent
Deleted ==
    /\ call.pc = "delete"
    /\ call' = [call EXCEPT
                  !.pc = IF Len(call.posted) = 0 THEN "commit" ELSE "insert",
                  !.i = 1,
                  !.work = RowsNotOf(call.work, toUpperCase(call.token))]
    /\ UNCHANGED <<upstream, clock, req, peer, pool, users, reg, tasks>>

\* The row of the INSERT the loop is at
PostedRow ==
    [id |-> call.posted[call.i].id, user_token |-> toUpperCase(call.token),
     data |-> call.posted[call.i]]

\* INSERT resolves; the loop sends the next one, or COMMIT is sent
Inserted ==
    /\ call.pc = "insert"
    /\ InsertError(call.work, users.planner, PostedRow) = ""
    /\ call' = [call EXCEPT
                  !.pc = IF call.i = Len(call.posted) THEN "commit" ELSE "insert",
                  !.i = @ + 1,
                  !.work = @ \cup {PostedRow}]
    /\ UNCHANGED <<upstream, clock, req, peer, pool, users, reg, tasks>>

\* INSERT rejects with a constraint violation: the inner catch sends ROLLBACK
InsertRejected ==
    /\ call.pc = "insert"
    /\ InsertError(call.work, users.planner, PostedRow) # ""
    /\ call' = [call EXCEPT
                  !.pc = "rollback",
                  !.error = InsertError(call.work, users.planner, PostedRow)]
    /\ UNCHANGED <<upstream, clock, req, peer, pool, users, reg, tasks>>

\* A statement of the transaction rejects for a reason of its own (the
\* connection, the server): the inner catch sends ROLLBACK
StatementFails ==
    /\ call.pc \in {"begin", "delete", "insert", "commit"}
    /\ call' = [call EXCEPT !.pc = "rollback", !.error = ConnectionError]
    /\ UNCHANGED <<upstream, clock, req, peer, pool, users, reg, tasks>>

\* COMMIT resolves: res.json({ success: true }), then client.release()
Committed ==
    /\ call.pc = "commit"
    /\ tasks' = call.work
    /\ call' = [call EXCEPT !.pc = "done", !.client = "released",
                            !.i = 0, !.work = {},
                            !.res = [status |-> 200, success |-> TRUE]]
    /\ UNCHANGED <<upstream, clock, req, peer, pool, users, reg>>

\* ROLLBACK settles: it resolves and the error of the statement is thrown
\* again, or it rejects with its own; client.release(), and the outer
\* catch answers
SettledRollback ==
    /\ call.pc = "rollback"
    /\ tasks' = RolledBack(tasks, call.work)
    /\ \E message \in {call.error, ConnectionError} :
         call' = [call EXCEPT !.pc = "done", !.client = "released",
                              !.i = 0, !.work = {},
                              !.res = [status |-> 500, error |-> message]]
    /\ UNCHANGED <<upstream, clock, req, peer, pool, users, reg>>

\* GET /api/planner/tasks/:token up to the first `await pool.query`
GetTasks ==
    /\ call.pc \in {"idle", "done"}
    /\ \E token \in TaskTokens :
       \E arrived \in {[IdleCall EXCEPT !.route = "get", !.token = token,
                                         !.before = tasks, !.prev = Prev]} :
         call' = IF ~pool
                 THEN [arrived EXCEPT !.pc = "done", !.res = NotConfigured]
                 ELSE [arrived EXCEPT !.pc = "userCheck"]
    /\ UNCHANGED <<upstream, clock, req, peer, pool, users, reg, tasks>>

\* SELECT token FROM planner_users resolves
UserChecked ==
    /\ call.pc = "userCheck"
    /\ call' = IF toUpperCase(call.token) \notin users.planner
               THEN [call EXCEPT !.pc = "done",
                                 !.res = [status |-> 401, error |-> "Invalid token"]]
               ELSE [call EXCEPT !.pc = "select"]
    /\ UNCHANGED <<upstream, clock, req, peer, pool, users, reg, tasks>>

\* SELECT data FROM planner_tasks resolves
Selected ==
    /\ call.pc = "select"
    /\ call' = [call EXCEPT
                  !.pc = "done",
                  !.res = [status |-> 200, success |-> TRUE,
                           tasks |-> OrderById(RowsOf(tasks, toUpperCase(call.token)))]]
    /\ UNCHANGED <<upstream, clock, req, peer, pool, users, reg, tasks>>

\* DELETE /api/planner/tasks/:token/:taskId up to `await pool.query`
DeleteTask ==
    /\ call.pc \in {"idle", "done"}
    /\ \E token \in TaskTokens : \E taskId \in TaskIds :
       \E arrived \in {[IdleCall EXCEPT !.route = "delete", !.token = token,
                                         !.taskId = taskId,
                                         !.before = tasks]} :
         call' = IF ~pool
                 THEN [arrived EXCEPT !.pc = "done", !.res = NotConfigured]
                 ELSE [arrived EXCEPT !.pc = "deleteOne"]
    /\ UNCHANGED <<upstream, clock, req, peer, pool, users, reg, tasks>>

\* DELETE ... WHERE user_token = $1 AND id = $2 resolves
DeletedOne ==
    /\ call.pc = "deleteOne"
    /\ tasks' = {w \in tasks :
                   ~(w.user_token = toUpperCase(call.token) /\ w.id = call.taskId)}
    /\ call' = [call EXCEPT !.pc = "done",
                            !.res = [status |-> 200, success |-> TRUE]]
    /\ UNCHANGED <<upstream, clock, req, peer, pool, users, reg>>

\* A pool.query of the GET or the DELETE route rejects: the catch answers
QueryFails ==
    /\ call.pc \in {"userCheck", "select", "deleteOne"}
    /\ call' = [call EXCEPT !.pc = "done", !.error = ConnectionError,
                            !.res = [status |-> 500, error |-> ConnectionError]]
    /\ UNCHANGED <<upstream, clock, req, peer, pool, users, reg, tasks>>

\* planner_users holds what the register requests of SpecReg stored
InitTasks ==
    /\ upstream = NoResponse
    /\ clock = 0
    /\ req = IdleRequest
    /\ peer = IdleRequest
    /\ pool \in BOOLEAN
    /\ users \in [planner : SUBSET PlanTokens, pantry : {{}}]
    /\ reg = [r \in Regs |-> IdleReg]
    /\ tasks = {}
    /\ call = IdleCall

NextTasks ==
    \/ PostTasks
    \/ Connected
    \/ ConnectFails
    \/ Begun
    \/ Deleted
    \/ Inserted
    \/ InsertRejected
    \/ StatementFails
    \/ Committed
    \/ SettledRollback
    \/ GetTasks
    \/ UserChecked
    \/ Selected
    \/ DeleteTask
    \/ DeletedOne
    \/ QueryFails

SpecTasks == InitTasks /\ [][NextTasks]_vars

----------------------------------------------------------------------------
(* Vocabulary of the properties *)

\* The request has been answered with a success response
Done200 == req.pc = "done" /\ req.res.status = 200
DoneStop == Done200 /\ req.endpoint = "stop"

\* The feed the request decoded, and the entity and the stop-time-update a
\* pushed record was built from
Feed == req.response.feed
SrcEntity(r) == Feed[r.src[1]]
SrcUpdate(r) == Feed[r.src[1]].stopTimeUpdate[r.src[2]]
Positions == {<<i, j>> : i \in 1..MaxEntities + 1, j \in 1..LongLen + 1}
FeedPositions ==
    {ij \in Positions : ij[1] <= Len(Feed) /\ ij[2] <= Len(Feed[ij[1]].stopTimeUpdate)}
Sources(arrivals) == {arrivals[k].src : k \in 1..Len(arrivals)}

\* The Date.now() values the handler can have read, given the one it read
\* last (the clock of the state in which it has answered)
Readings == {clock} \cup (IF clock >= TickMs THEN {clock - TickMs} ELSE {})

\* The update carries a plain arrival time (0 < value < 2^31) whose
\* minutesUntil is in, or out of, -2 .. 120 whenever the clock was read
PlainArrival(u) == u.arrival.has /\ u.arrival.time.high = 0 /\ u.arrival.time.low > 0
SurelyInWindow(u) ==
    \A now \in Readings :
      /\ MinutesUntil(u.arrival.time.low, now) >= 0 - 2
      /\ MinutesUntil(u.arrival.time.low, now) <= 120
SurelyOutOfWindow(u) ==
    \A now \in Readings :
      \/ MinutesUntil(u.arrival.time.low, now) < 0 - 2
      \/ MinutesUntil(u.arrival.time.low, now) > 120

\* The entity is a trip-update of route N
OfRouteN(e) == e.hasTripUpdate /\ e.trip.routeId = "N"

----------------------------------------------------------------------------
(* C1 *)

\* C1: every record of the arrivals array of a success response of either
\* arrivals endpoint was built from an entity that has a trip-update whose
\* routeId is exactly 'N'; entities without a trip-update and trip-updates
\* of any other route (such as 'n') contribute no record.
C1_OnlyRouteN ==
    Done200 =>
      \A k \in 1..Len(req.res.arrivals) :
        LET r == req.res.arrivals[k]
        IN  /\ SrcEntity(r).hasTripUpdate
            /\ SrcEntity(r).trip.routeId = "N"
            /\ r.tripId = SrcEntity(r).trip.tripId

\* A response that shows a record of a trip of route N while the feed also
\* holds a trip of route 'n' calling at the requested stop within the window
C1_Witness ==
    /\ DoneStop
    /\ req.res.arrivals # <<>>
    /\ \E ij \in FeedPositions :
         /\ Feed[ij[1]].hasTripUpdate
         /\ Feed[ij[1]].trip.routeId = "n"
         /\ toLowerCase(Feed[ij[1]].stopTimeUpdate[ij[2]].stopId) = toLowerCase(req.stopId)
         /\ PlainArrival(Feed[ij[1]].stopTimeUpdate[ij[2]])
         /\ SurelyInWindow(Feed[ij[1]].stopTimeUpdate[ij[2]])

----------------------------------------------------------------------------
(* C2 *)

\* The update at a position is one the endpoint of the request looks at:
\* its trip is of route N and its stop id is the requested one
\* (/arrivals/:stopId) or a key of the directory (/arrivals)
Matching(ij) ==
    /\ OfRouteN(Feed[ij[1]])
    /\ req.endpoint = "stop" =>
         toLowerCase(Feed[ij[1]].stopTimeUpdate[ij[2]].stopId) = toLowerCase(req.stopId)
    /\ req.endpoint = "all" =>
         Lookup(toLowerCase(Feed[ij[1]].stopTimeUpdate[ij[2]].stopId)).found
LacksBoth(u) == ~u.arrival.has /\ ~u.departure.has

\* C2: a stop-time-update with neither an arrival nor a departure never
\* appears in the arrivals of either endpoint, and a well-formed feed whose
\* matching stop-time-updates all lack both times is answered with a success
\* response whose arrivals array is empty.
C2_NoTimeNoRecord ==
    /\ Done200 =>
         \A k \in 1..Len(req.res.arrivals) : ~LacksBoth(SrcUpdate(req.res.arrivals[k]))
    /\ ( /\ req.pc = "done"
         /\ req.response.reachable
         /\ req.response.wellFormed
         /\ \A ij \in FeedPositions :
              Matching(ij) => LacksBoth(Feed[ij[1]].stopTimeUpdate[ij[2]]) )
       => (req.res.status = 200 /\ req.res.arrivals = <<>>)

\* A success response with no arrivals to a feed that holds a matching
\* stop-time-update, which lacks both times
C2_Witness ==
    /\ Done200
    /\ req.res.arrivals = <<>>
    /\ \E ij \in FeedPositions :
         Matching(ij) /\ LacksBoth(Feed[ij[1]].stopTimeUpdate[ij[2]])

----------------------------------------------------------------------------
(* C3 *)

----------------------------------------------------------------------------
(* C4 *)

\* C4: the arrivals array of every success response of either endpoint is
\* in ascending order of arrivalTime.
C4_Sorted ==
    Done200 =>
      \A k \in 1..(Len(req.res.arrivals) - 1) :
        req.res.arrivals[k].arrivalTime <= req.res.arrivals[k + 1].arrivalTime

\* p comes before q in the feed
FeedBefore(p, q) == p[1] < q[1] \/ (p[1] = q[1] /\ p[2] < q[2])

\* A response in which a record stands before one the feed held earlier
C4_Witness ==
    /\ Done200
    /\ \E k \in 1..(Len(req.res.arrivals) - 1) :
         /\ FeedBefore(req.res.arrivals[k + 1].src, req.res.arrivals[k].src)
         /\ req.res.arrivals[k].arrivalTime < req.res.arrivals[k + 1].arrivalTime

----------------------------------------------------------------------------
(* C5 *)

\* C5: GET /api/rtd/arrivals/:stopId returns at most 10 arrivals, the first
\* min(10, n) of the n records of the handler's sorted arrivals array, and
\* no record left out has an arrivalTime below that of a record returned.
C5_FirstTen ==
    DoneStop =>
      LET n == Len(req.arrivals)
          m == Len(req.res.arrivals)
      IN  /\ m <= 10
          /\ m = (IF n < 10 THEN n ELSE 10)
          /\ \A k \in 1..m : req.res.arrivals[k] = req.arrivals[k]
          /\ \A k \in 1..m : \A h \in (m + 1)..n :
               ~(req.arrivals[h].arrivalTime < req.res.arrivals[k].arrivalTime)

\* A response of 10 arrivals to a feed with more than 10 matches in the window
C5_Witness ==
    /\ DoneStop
    /\ Len(req.arrivals) > 10
    /\ Len(req.res.arrivals) = 10

----------------------------------------------------------------------------
(* C6 *)

\* C6: in every response of GET /api/rtd/arrivals/:stopId the status of an
\* arrival is 'Arriving' exactly when minutesUntil <= 1, 'Due' exactly when
\* 1 < minutesUntil <= 5 and 'On Time' exactly when minutesUntil > 5.
C6_StatusBuckets ==
    DoneStop =>
      \A k \in 1..Len(req.res.arrivals) :
        LET r == req.res.arrivals[k]
        IN  /\ r.status \in {"Arriving", "Due", "On Time"}
            /\ r.status = "Arriving" <=> r.minutesUntil <= 1
            /\ r.status = "Due" <=> (1 < r.minutesUntil /\ r.minutesUntil <= 5)
            /\ r.status = "On Time" <=> r.minutesUntil > 5

\* A response with an arrival of negative minutesUntil, shown as 'Arriving'
C6_Witness ==
    /\ DoneStop
    /\ \E k \in 1..Len(req.res.arrivals) :
         /\ req.res.arrivals[k].minutesUntil < 0
         /\ req.res.arrivals[k].status = "Arriving"

----------------------------------------------------------------------------
(* C7 *)

\* C7: the minutesUntil of the arrivals of one response are all taken at one
\* single instant, so that two arrivals of a response with equal arrivalTime
\* carry equal minutesUntil (and, where shown, equal status).
C7_OneInstant ==
    Done200 =>
      \A k \in 1..Len(req.res.arrivals) : \A h \in 1..Len(req.res.arrivals) :
        req.res.arrivals[k].arrivalTime = req.res.arrivals[h].arrivalTime =>
          /\ req.res.arrivals[k].minutesUntil = req.res.arrivals[h].minutesUntil
          /\ req.endpoint = "stop" =>
               req.res.arrivals[k].status = req.res.arrivals[h].status

----------------------------------------------------------------------------
(* C8 *)

\* The number a Long stands for is the number n
LongEquals(t, n) == t.high = 0 /\ t.low >= 0 /\ t.low = n

\* C8: the arrivalTime of an output record is the arrival time of its
\* stop-time-update whenever that update has an arrival time, whatever its
\* 64-bit value (0 and values from 2^31 on included), and its departure
\* time only when the update has no arrival time.
C8_ArrivalElseDeparture ==
    Done200 =>
      \A k \in 1..Len(req.res.arrivals) :
        LET r == req.res.arrivals[k]
            u == SrcUpdate(r)
        IN  /\ u.arrival.has => LongEquals(u.arrival.time, r.arrivalTime)
            /\ ~u.arrival.has => LongEquals(u.departure.time, r.arrivalTime)

----------------------------------------------------------------------------
(* C9 *)

\* String.prototype.trim, which the handlers never call
IsSpace(c) == c = " "
RECURSIVE TrimLeft(_)
TrimLeft(s) == IF s # <<>> /\ IsSpace(Head(s)) THEN TrimLeft(Tail(s)) ELSE s
RECURSIVE TrimRight(_)
TrimRight(s) ==
    IF s # <<>> /\ IsSpace(s[Len(s)]) THEN TrimRight(SubSeq(s, 1, Len(s) - 1)) ELSE s
Trim(s) == TrimRight(TrimLeft(s))

\* The comparison the claim describes: trimmed and case-folded on both sides
Normalized(s) == toLowerCase(Trim(s))

\* The update at a position belongs to a trip of route N and carries a plain
\* arrival time whose minutesUntil is in the window
Showable(ij) ==
    /\ OfRouteN(Feed[ij[1]])
    /\ PlainArrival(Feed[ij[1]].stopTimeUpdate[ij[2]])
    /\ SurelyInWindow(Feed[ij[1]].stopTimeUpdate[ij[2]])

\* C9 as claimed: GET /api/rtd/arrivals/:stopId keeps a stop-time-update of
\* an accepted trip exactly when its stop id equals the requested one after
\* both are trimmed and case-folded.  The handler does not trim.
C9_TrimmedAndFolded ==
    DoneStop =>
      /\ \A k \in 1..Len(req.arrivals) :
           Normalized(SrcUpdate(req.arrivals[k]).stopId) = Normalized(req.stopId)
      /\ \A ij \in FeedPositions :
           ( /\ Showable(ij)
             /\ Normalized(Feed[ij[1]].stopTimeUpdate[ij[2]].stopId) = Normalized(req.stopId) )
           => ij \in Sources(req.arrivals)

\* The letters of a string with every upper-case one replaced by its
\* lower-case one, and nothing else changed
SameButCase(a, b) ==
    /\ Len(a) = Len(b)
    /\ \A k \in 1..Len(a) :
         \/ a[k] = b[k]
         \/ \E c \in 1..26 : {a[k], b[k]} = {UpperCase[c], LowerCase[c]}

\* C9 as amended: GET /api/rtd/arrivals/:stopId keeps a stop-time-update of
\* an accepted trip exactly when its stop id and the requested one are equal
\* up to letter case; surrounding whitespace is not trimmed, so ids that
\* differ by it do not match.
C9_FoldedOnly ==
    DoneStop =>
      /\ \A k \in 1..Len(req.arrivals) :
           SameButCase(SrcUpdate(req.arrivals[k]).stopId, req.stopId)
      /\ \A ij \in FeedPositions :
           ( /\ Showable(ij)
             /\ SameButCase(Feed[ij[1]].stopTimeUpdate[ij[2]].stopId, req.stopId) )
           => ij \in Sources(req.arrivals)

\* A response showing an update whose stop id differs from the requested one
\* by letter case
C9_Witness ==
    /\ DoneStop
    /\ \E k \in 1..Len(req.res.arrivals) :
         /\ SrcUpdate(req.res.arrivals[k]).stopId # req.stopId
         /\ SameButCase(SrcUpdate(req.res.arrivals[k]).stopId, req.stopId)

----------------------------------------------------------------------------
(* C10 *)

\* C10: a stop id without an entry in the stop directory is answered with
\* success and its raw self as stopName; one with an entry, looked up
\* without regard to case, with the entry's display name.
C10_StopName ==
    (req.pc = "done" /\ req.endpoint = "stop"
       /\ req.response.reachable /\ req.response.wellFormed) =>
      /\ req.res.status = 200
      /\ \A key \in DOMAIN N_LINE_STOPS :
           SameButCase(req.stopId, key) => req.res.stopName = N_LINE_STOPS[key]
      /\ (\A key \in DOMAIN N_LINE_STOPS : ~SameButCase(req.stopId, key)) =>
           req.res.stopName = req.stopId

----------------------------------------------------------------------------
(* C11 *)

\* A stage of the request is about to fail: fetch has nothing to resolve
\* with, or the bytes it resolved with are no feed message
StageFails ==
    \/ req.pc = "fetch" /\ ~upstream.reachable
    \/ req.pc = "arrayBuffer" /\ ~req.response.wellFormed

\* C11: a request one of whose stages fails (fetch throws, decode rejects
\* the bytes) is answered once, with status 500 and an error body that has
\* no arrivals array; a response, once sent, is never followed by another.
C11_FailureAnswered500 ==
    [][ /\ req.res # NoRes => req'.res = req.res
        /\ (StageFails /\ req' # req) =>
             /\ req'.pc = "done"
             /\ req'.res.status = 500
             /\ "error" \in DOMAIN req'.res
             /\ "arrivals" \notin DOMAIN req'.res ]_vars

\* A request answered 500 after the host sent bytes that are no feed message
C11_Witness ==
    /\ req.pc = "done"
    /\ req.response.reachable
    /\ ~req.response.wellFormed
    /\ req.res.status = 500
    /\ "arrivals" \notin DOMAIN req.res

----------------------------------------------------------------------------
(* C12 *)

\* C12: a request whose fetch was answered with a status outside 200..299
\* ends with status 500 and an error body, never with a success response
\* carrying an arrivals array.
C12_NonSuccessUpstreamFails ==
    (req.pc = "done" /\ req.response.reachable
       /\ req.response.status \notin 200..299) =>
      /\ req.res.status = 500
      /\ "error" \in DOMAIN req.res
      /\ "arrivals" \notin DOMAIN req.res

----------------------------------------------------------------------------
(* C13 *)

\* C13: every success response of GET /api/rtd/arrivals/:stopId carries
\* feedTimestamp and feedAgeMinutes next to stopId, stopName, timestamp and
\* arrivals.
C13_FeedMetadata ==
    DoneStop =>
      {"stopId", "stopName", "timestamp", "arrivals",
       "feedTimestamp", "feedAgeMinutes"} \subseteq DOMAIN req.res

----------------------------------------------------------------------------
(* C14 *)

\* What a response shows of a record, and of itself: the auxiliary fields
\* src and readAt are not part of it
Shown(r) == [f \in DOMAIN r \ {"src", "readAt"} |-> r[f]]
Body(res) ==
    IF "arrivals" \in DOMAIN res
    THEN [res EXCEPT !.arrivals = [k \in 1..Len(res.arrivals) |-> Shown(res.arrivals[k])]]
    ELSE res

\* C14: two requests to GET /api/rtd/arrivals/:stopId for the same stop id
\* that decoded the same feed bytes and answered at the same instant (the
\* timestamp of their responses) give the same response, however their
\* suspension points were interleaved with each other and with a request
\* to GET /api/rtd/arrivals.
C14_SameInputsSameOutput ==
    ( /\ req.pc = "done" /\ peer.pc = "done"
      /\ req.endpoint = "stop"
      /\ req.stopId = peer.stopId
      /\ req.response = peer.response
      /\ req.res.status = 200 /\ peer.res.status = 200
      /\ req.res.timestamp = peer.res.timestamp )
    => Body(req.res) = Body(peer.res)

----------------------------------------------------------------------------
(* C15 *)

\* C15: in the sorted arrivals array of either endpoint two records of
\* equal arrivalTime stand in the order the feed held them (entity, then
\* stop-time-update), and the response of GET /api/rtd/arrivals/:stopId is
\* the first 10 records of that array (that of GET /api/rtd/arrivals the
\* whole of it).
C15_StableThenTruncated ==
    Done200 =>
      /\ \A k \in 1..Len(req.arrivals) : \A h \in (k + 1)..Len(req.arrivals) :
           req.arrivals[k].arrivalTime = req.arrivals[h].arrivalTime =>
             FeedBefore(req.arrivals[k].src, req.arrivals[h].src)
      /\ req.endpoint = "stop" =>
           req.res.arrivals =
             SubSeq(req.arrivals, 1,
                    IF Len(req.arrivals) < 10 THEN Len(req.arrivals) ELSE 10)
      /\ req.endpoint = "all" => req.res.arrivals = req.arrivals

\* A response of 10 arrivals, two of them of equal arrivalTime, that leaves
\* out a record of the same arrivalTime as the last one it shows
C15_Witness ==
    /\ DoneStop
    /\ Len(req.arrivals) > 10
    /\ req.arrivals[10].arrivalTime = req.arrivals[11].arrivalTime
    /\ \E k \in 1..9 :
         req.res.arrivals[k].arrivalTime = req.res.arrivals[k + 1].arrivalTime

----------------------------------------------------------------------------
(* C16 *)

\* The register request has answered with success
Registered(r) == reg[r].pc = "done" /\ reg[r].res.status = 200

\* C16: the token a register request returns with success is the one its
\* own INSERT stored in the users table of its route, and two register
\* requests that return success for the same users table return different
\* tokens, however their INSERTs were interleaved.
C16_TokensUnique ==
    /\ \A r \in Regs :
         Registered(r) =>
           /\ reg[r].res.success
           /\ reg[r].res.token = reg[r].stored
           /\ reg[r].res.token \in users[reg[r].table]
    /\ \A r1 \in Regs : \A r2 \in Regs \ {r1} :
         (Registered(r1) /\ Registered(r2) /\ reg[r1].table = reg[r2].table)
           => reg[r1].res.token # reg[r2].res.token

\* Two requests registered in the same users table, one of them after its
\* first tokens collided
C16_Witness ==
    \E r1 \in Regs : \E r2 \in Regs \ {r1} :
      /\ Registered(r1) /\ Registered(r2)
      /\ reg[r1].table = reg[r2].table
      /\ reg[r2].attempts > 0

----------------------------------------------------------------------------
(* C17 *)

\* What holds of a register request at every moment
RegisterBounded(r) ==
    /\ reg[r].inserts <= MaxAttempts
    /\ reg[r].pc = "done" =>
         /\ reg[r].res.status \in {200, 500, 503}
         /\ reg[r].res.status = 200 <=> reg[r].stored # <<>>
         /\ reg[r].res.status = 200 =>
              /\ reg[r].attempts < MaxAttempts
              /\ reg[r].inserts = reg[r].attempts + 1
         /\ reg[r].attempts = MaxAttempts <=>
              ( /\ reg[r].res.status = 500
                /\ reg[r].res.error = "Could not generate unique token" )
         /\ reg[r].attempts = MaxAttempts => reg[r].inserts = MaxAttempts
         /\ (reg[r].res.status = 500 /\ reg[r].attempts < MaxAttempts) =>
              reg[r].inserts = reg[r].attempts + 1
         /\ reg[r].res.status = 503 => reg[r].inserts = 0

\* C17: a register request sends at most 10 INSERTs and ends with one
\* response: success on the first INSERT that stores its row, 500 'Could
\* not generate unique token' exactly when 10 INSERTs in a row failed with
\* a unique violation, and 500 at once on any other INSERT error; a request
\* whose INSERT is pending is answered in the end, and a response once
\* given never changes.
C17_RegisterEnds ==
    /\ [](\A r \in Regs : RegisterBounded(r))
    /\ [][\A r \in Regs : reg[r].pc = "done" => reg'[r] = reg[r]]_vars
    /\ \A r \in Regs : (reg[r].pc = "insert") ~> (reg[r].pc = "done")

\* A request answered 'Could not generate unique token' after 10 INSERTs
C17_Witness ==
    \E r \in Regs :
      /\ reg[r].pc = "done"
      /\ reg[r].attempts = MaxAttempts
      /\ reg[r].inserts = MaxAttempts
      /\ reg[r].res.status = 500

----------------------------------------------------------------------------
(* C18 *)

\* The sync has answered, and the rows its array stands for
PostDone == call.route = "post" /\ call.pc = "done"
PostedRows ==
    {[id |-> call.posted[k].id, user_token |-> toUpperCase(call.token),
      data |-> call.posted[k]] : k \in 1..Len(call.posted)}

\* C18: while a sync runs and after it has failed the committed tasks are
\* those of before the request; they change only when it answers success,
\* and then to the posted tasks in place of all former tasks of the token.
\* A sync one of whose statements failed answers 500 with its client
\* released, and no sync ends holding its client.
C18_AllOrNothing ==
    call.route = "post" =>
      /\ \/ tasks = call.before
         \/ /\ PostDone /\ call.res.status = 200
            /\ tasks = RowsNotOf(call.before, toUpperCase(call.token)) \cup PostedRows
      /\ (PostDone /\ call.res.status # 200) => tasks = call.before
      /\ (PostDone /\ call.error # "") =>
           (call.res.status = 500 /\ call.client # "held")
      /\ (PostDone /\ call.client # "none") => call.client = "released"

\* A sync answered 500 for a duplicate id after it had deleted the stored
\* tasks of its token and inserted the first posted task
C18_Witness ==
    /\ PostDone
    /\ call.res.status = 500
    /\ call.error = "duplicate key value violates unique constraint"
    /\ call.client = "released"
    /\ Len(call.posted) = 2
    /\ call.posted[1].id = call.posted[2].id
    /\ RowsOf(call.before, toUpperCase(call.token)) # {}
    /\ tasks = call.before

----------------------------------------------------------------------------
(* C19 *)

\* The transaction of a sync none of whose statements fails for a reason
\* of its own, run on a table: whether it commits and what the table then
\* holds
RECURSIVE InsertAll(_, _, _, _, _)
InsertAll(work, registered, token, posted, i) ==
    IF i > Len(posted) THEN [ok |-> TRUE, rows |-> work]
    ELSE LET row == [id |-> posted[i].id, user_token |-> token, data |-> posted[i]]
         IN  IF InsertError(work, registered, row) # ""
             THEN [ok |-> FALSE, rows |-> work]
             ELSE InsertAll(work \cup {row}, registered, token, posted, i + 1)

SyncOutcome(rows, registered, token, posted) ==
    LET run == InsertAll(RowsNotOf(rows, token), registered, token, posted, 1)
    IN  [ok |-> run.ok, rows |-> IF run.ok THEN run.rows ELSE rows]

\* C19: a sync of token A leaves the stored tasks of every other token as
\* they were, and it succeeds or fails, and leaves for A the tasks, that it
\* would with nothing stored for the other tokens.
C19_Isolated ==
    (PostDone /\ call.res.status \in {200, 500}
       /\ call.error # ConnectionError
       /\ (call.res.status = 500 => call.res.error # ConnectionError))
    => LET A == toUpperCase(call.token)
           alone == SyncOutcome(RowsOf(call.before, A), users.planner, A, call.posted)
       IN  /\ RowsNotOf(tasks, A) = RowsNotOf(call.before, A)
           /\ (call.res.status = 200) = alone.ok
           /\ RowsOf(tasks, A) = RowsOf(alone.rows, A)

----------------------------------------------------------------------------
(* C20 *)

\* The ids of the array are pairwise distinct
DistinctIds(posted) ==
    \A k \in 1..Len(posted) : \A h \in 1..Len(posted) :
      posted[k].id = posted[h].id => k = h

\* The array in ascending order of id
AscendingById(posted) ==
    [k \in 1..Len(posted) |->
       posted[CHOOSE h \in 1..Len(posted) :
                Cardinality({g \in 1..Len(posted) : posted[g].id < posted[h].id}) = k - 1]]

\* C20: a GET that directly follows a sync answered with success, for the
\* same token in any letter case and an array of pairwise distinct ids,
\* answers success with the posted tasks in ascending order of id, unless
\* one of its queries fails for a reason of its own.
C20_RoundTrip ==
    ( /\ call.route = "get" /\ call.pc = "done"
      /\ call.prev.ok
      /\ toUpperCase(call.token) = toUpperCase(call.prev.token)
      /\ DistinctIds(call.prev.posted)
      /\ call.error # ConnectionError )
    => /\ call.res.status = 200
       /\ call.res.success
       /\ call.res.tasks = AscendingById(call.prev.posted)

====
